---- MODULE Spec2Model ----
(***************************************************************************)
(* The quantum execution bridge of runtimes/quantum/quantum_bridge.py:     *)
(* QuantumBridge.execute_circuit with its four adapters, generate_receipt  *)
(* and the main flow (execute, generate receipt, submit proof).            *)
(*                                                                         *)
(* Python dicts are modelled in two ways.  An ExecutionResult, which is    *)
(* only ever read with .get(), is a function from its keys to values.  A   *)
(* receipt, which is serialized, is the sequence of its <<key, value>>     *)
(* pairs in insertion order, each value tagged with its JSON type, so that *)
(* json.dumps(sort_keys=True) is a real sort followed by a real encoding   *)
(* into a string.                                                          *)
(***************************************************************************)
EXTENDS Integers, Sequences, FiniteSets, TLC

VARIABLES
    provider,     \* QuantumBridge.provider, the QPU_PROVIDER of main
    config,       \* QuantumBridge.config
    circuit,      \* circuit_json
    job_id,       \* ARTHA_JOB_ID
    pc,           \* position of the main flow
    wait_time,    \* _execute_ibm: wait_time
    vstatus,      \* the vendor's status of the submitted job ("none": no job)
    submitted,    \* payloads handed to a backend, in order
    result,       \* the value returned by execute_circuit
    receipt,      \* the value returned by generate_receipt
    raised,       \* exception that escaped to the caller of main ("none")
    posts,        \* bodies POSTed to the proof service, in order
    postOutcome,  \* history: how the POST of main ended ("none": not issued)
    ionqPolls,    \* history: number of status reads of _execute_ionq, up to
                  \* MaxIonqPolls
    clock,        \* last value read from time.time()
    polls,        \* history: number of job.status() calls of _execute_ibm
    sleeps,       \* history: number of time.sleep(5) calls of _execute_ibm
    loopExit,     \* history: status read by the loop test that left the loop
    checkStatus,  \* history: status read at the DONE test after the loop
    msgStatus,    \* history: status read for the error message
    failure,      \* history: the kinds of failure that have happened
    lateFailure,  \* history: a failure happened during or after submission
    bodyA, bodyB, \* digest specification: two receipt bodies
    digA, digB    \* digest specification: their digests ("" before hashing)

vars == <<provider, config, circuit, job_id, pc, wait_time, vstatus, submitted,
          result, receipt, raised, posts, postOutcome, ionqPolls, clock, polls, sleeps,
          loopExit, checkStatus, msgStatus, failure, lateFailure, bodyA, bodyB, digA, digB>>

-----------------------------------------------------------------------------
(* Bounds of the model *)

MaxGates == 1      \* longest gate list of a circuit read from a file
MaxTime == 2       \* time.time() returns a value in 1..MaxTime
MaxIonqPolls == 3  \* status reads of _execute_ionq that are counted

(* Program constants *)

max_wait == 300
PollInterval == 5
MainShots == 1024
DefaultNumQubits == 2

-----------------------------------------------------------------------------
(* Python dict helpers *)

EmptyDict == [k \in {} |-> TRUE]

\* dict.get(key, default) on a dict held as a function
Get(d, key, default) == IF key \in DOMAIN d THEN d[key] ELSE default

\* The module-level provider table
QPU_PROVIDERS ==
    [ibm |-> [url |-> "https://api.quantum-computing.ibm.com",
              api_key |-> "", backend |-> "ibmq_qasm_simulator"],
     google |-> [url |-> "", project_id |-> "", processor |-> "rainbow"],
     ionq |-> [url |-> "https://api.ionq.co", api_key |-> ""],
     qiskit_simulator |-> [type |-> "simulator"]]

\* a constructor without the simulator as default: an unknown provider gets
\* an empty configuration
ConfigOfNoDefault(p) == Get(QPU_PROVIDERS, p, EmptyDict)

\* QuantumBridge.__init__: self.config
ConfigOf(p) == Get(QPU_PROVIDERS, p, QPU_PROVIDERS["qiskit_simulator"])

\* execute_circuit's dispatch
Dispatch(p, cfg) ==
    IF Get(cfg, "type", "none") = "simulator" THEN "simulator"
    ELSE IF p = "ibm" THEN "ibm"
    ELSE IF p = "google" THEN "google"
    ELSE IF p = "ionq" THEN "ionq"
    ELSE "ValueError"

-----------------------------------------------------------------------------
(* Circuits: circuit_json = {"num_qubits": n, "gates": [gate, ...]}, a gate *)
(* {"type": t, "qubits": [...]} with an optional "angle".                   *)

(* "angle" is <<>> when the key is absent and <<a>> when it is present.      *)

NoAngle == <<>>

Gate(t, qs, a) == [type |-> t, qubits |-> qs, angle |-> a]

GateInputs ==
    { Gate("h", <<0>>, NoAngle),
      Gate("cx", <<0, 1>>, NoAngle),
      Gate("rz", <<0>>, <<1>>),
      Gate("ry", <<1>>, NoAngle),       \* rotation that carries no angle
      Gate("swap", <<0, 1>>, NoAngle),  \* kind outside the closed set
      Gate("h", <<2>>, NoAngle),        \* qubit index >= num_qubits
      Gate("cx", <<0>>, NoAngle) }      \* two-qubit gate with one index

SeqsUpTo(S, n) == UNION { [1..k -> S] : k \in 0..n }

\* main, lines 323-330: the default circuit
BellCircuit ==
    [num_qubits |-> 2,
     gates |-> <<Gate("h", <<0>>, NoAngle), Gate("cx", <<0, 1>>, NoAngle)>>]

\* main, lines 319-330: the circuit of the file, or the default circuit
Circuits ==
    { [num_qubits |-> DefaultNumQubits, gates |-> gs] : gs \in SeqsUpTo(GateInputs, MaxGates) }
    \cup {BellCircuit}

\* a default angle other than 0
AngleOrOne(g) == IF g.angle = NoAngle THEN 1 ELSE g.angle[1]

\* gate.get("angle", 0)
AngleOrZero(g) == IF g.angle = NoAngle THEN 0 ELSE g.angle[1]

-----------------------------------------------------------------------------
(* Translation.  A translation is [ok |-> TRUE, ops |-> <<...>>] or, when    *)
(* the building code raises, [ok |-> FALSE, error |-> name of the exception].*)

Op(name, qs, params) == [name |-> name, qubits |-> qs, params |-> params]

InRange(qs, k, n) == qs[k] < n

\* One gate of _build_circuit / of the simulator's building loop: the ops it
\* appends (none for a kind the if/elif chain does not list), or the exception
\* of the list index or of the QuantumCircuit method.
QiskitGate(g, n) ==
    LET qs == g.qubits IN
    IF g.type \in {"h", "rz", "ry"} THEN
        IF Len(qs) < 1 THEN [ok |-> FALSE, error |-> "IndexError"]
        ELSE IF ~InRange(qs, 1, n) THEN [ok |-> FALSE, error |-> "CircuitError"]
        ELSE [ok |-> TRUE,
              ops |-> << Op(g.type, <<qs[1]>>,
                            IF g.type = "h" THEN <<>> ELSE <<AngleOrZero(g)>>) >>]
    ELSE IF g.type = "cx" THEN
        IF Len(qs) < 2 THEN [ok |-> FALSE, error |-> "IndexError"]
        ELSE IF ~InRange(qs, 1, n) \/ ~InRange(qs, 2, n) \/ qs[1] = qs[2]
             THEN [ok |-> FALSE, error |-> "CircuitError"]
        ELSE [ok |-> TRUE, ops |-> << Op("cx", <<qs[1], qs[2]>>, <<>>) >>]
    ELSE [ok |-> TRUE, ops |-> <<>>]

RECURSIVE QiskitGates(_, _, _)
QiskitGates(gs, n, acc) ==
    IF gs = <<>> THEN [ok |-> TRUE, ops |-> acc]
    ELSE LET r == QiskitGate(Head(gs), n) IN
         IF r.ok THEN QiskitGates(Tail(gs), n, acc \o r.ops) ELSE r

\* a building loop without the branch for cx
BuildCircuitWithoutCx(c) ==
    LET IsNotCx(g) == g.type # "cx"
    IN  QiskitGates(SelectSeq(c.gates, IsNotCx), c.num_qubits, <<>>)

\* _build_circuit (and lines 62-77 of the simulator adapter, the same loop)
BuildCircuit(c) == QiskitGates(c.gates, c.num_qubits, <<>>)

\* One gate of _execute_google's building loop
CirqGate(g, n) ==
    LET qs == g.qubits IN
    IF g.type = "h" THEN
        IF Len(qs) < 1 \/ ~InRange(qs, 1, n) THEN [ok |-> FALSE, error |-> "IndexError"]
        ELSE [ok |-> TRUE, ops |-> << Op("H", <<qs[1]>>, <<>>) >>]
    ELSE IF g.type = "cx" THEN
        IF Len(qs) < 2 \/ ~InRange(qs, 1, n) \/ ~InRange(qs, 2, n)
             THEN [ok |-> FALSE, error |-> "IndexError"]
        ELSE IF qs[1] = qs[2] THEN [ok |-> FALSE, error |-> "ValueError"]
        ELSE [ok |-> TRUE, ops |-> << Op("CNOT", <<qs[1], qs[2]>>, <<>>) >>]
    ELSE [ok |-> TRUE, ops |-> <<>>]

RECURSIVE CirqGates(_, _, _)
CirqGates(gs, n, acc) ==
    IF gs = <<>> THEN [ok |-> TRUE, ops |-> acc]
    ELSE LET r == CirqGate(Head(gs), n) IN
         IF r.ok THEN CirqGates(Tail(gs), n, acc \o r.ops) ELSE r

\* _execute_google, lines 178-185
BuildCirqCircuit(c) == CirqGates(c.gates, c.num_qubits, <<>>)

\* One gate of _build_ionq_circuit: {"gate": "h", "target": q0},
\* {"gate": "cnot", "target": q0, "control": q1}, or the empty dict {}.
IonqGate(g) ==
    LET qs == g.qubits IN
    IF g.type = "h" THEN
        IF Len(qs) < 1 THEN [ok |-> FALSE, error |-> "IndexError"]
        ELSE [ok |-> TRUE, ops |-> << [gate |-> "h", target |-> qs[1]] >>]
    ELSE IF g.type = "cx" THEN
        IF Len(qs) < 2 THEN [ok |-> FALSE, error |-> "IndexError"]
        ELSE [ok |-> TRUE,
              ops |-> << [gate |-> "cnot", target |-> qs[1], control |-> qs[2]] >>]
    ELSE [ok |-> TRUE, ops |-> << EmptyDict >>]

RECURSIVE IonqGates(_, _)
IonqGates(gs, acc) ==
    IF gs = <<>> THEN [ok |-> TRUE, ops |-> acc]
    ELSE LET r == IonqGate(Head(gs)) IN
         IF r.ok THEN IonqGates(Tail(gs), acc \o r.ops) ELSE r

\* _build_ionq_circuit
BuildIonqCircuit(c) == IonqGates(c.gates, <<>>)

-----------------------------------------------------------------------------
(* JSON.  A value is tagged with its type: <<"str", s>>, <<"int", n>>,      *)
(* <<"float", n>> (the float n.0), <<"bool", b>>, <<"dict", pairs>>.  A     *)
(* serialized dict is the sequence of its <<key, value>> pairs in insertion *)
(* order.                                                                   *)

JStr(s) == <<"str", s>>
JInt(n) == <<"int", n>>
JFloat(n) == <<"float", n>>
JBool(b) == <<"bool", b>>
JDict(pairs) == <<"dict", pairs>>

\* Python's order of the strings that occur as keys (str.__lt__)
KeyOrder ==
    <<"00", "01", "10", "11", "counts", "digest", "execution_time", "job_id",
      "provider", "shots", "success", "timestamp">>

KeyRank(k) == CHOOSE i \in 1..Len(KeyOrder) : KeyOrder[i] = k

Keys(pairs) == { pairs[i][1] : i \in 1..Len(pairs) }

\* d[key] for a dict held as pairs
Lookup(pairs, key) ==
    LET i == CHOOSE j \in 1..Len(pairs) : pairs[j][1] = key IN pairs[i][2]

\* d[key] = value: a new key goes last, an existing key keeps its place
DictSet(pairs, key, value) ==
    IF key \in Keys(pairs)
    THEN [i \in 1..Len(pairs) |->
             IF pairs[i][1] = key THEN <<key, value>> ELSE pairs[i]]
    ELSE Append(pairs, <<key, value>>)

\* the dict without `key`
DictDel(pairs, key) == SelectSeq(pairs, LAMBDA kv : kv[1] # key)

RECURSIVE InsertSorted(_, _)
InsertSorted(kv, sorted) ==
    IF sorted = <<>> THEN <<kv>>
    ELSE IF KeyRank(kv[1]) <= KeyRank(Head(sorted)[1]) THEN <<kv>> \o sorted
    ELSE <<Head(sorted)>> \o InsertSorted(kv, Tail(sorted))

\* sorted(d.items()), as json.dumps(sort_keys=True) iterates a dict
RECURSIVE SortItems(_)
SortItems(pairs) ==
    IF pairs = <<>> THEN <<>>
    ELSE InsertSorted(Head(pairs), SortItems(Tail(pairs)))

RECURSIVE JsonValue(_, _), JsonItems(_, _)
\* json.dumps of one value, default separators
JsonValue(v, sort_keys) ==
    IF v[1] = "str" THEN "\"" \o v[2] \o "\""
    ELSE IF v[1] = "int" THEN ToString(v[2])
    ELSE IF v[1] = "float" THEN ToString(v[2]) \o ".0"
    ELSE IF v[1] = "bool" THEN (IF v[2] THEN "true" ELSE "false")
    ELSE "{" \o JsonItems(IF sort_keys THEN SortItems(v[2]) ELSE v[2], sort_keys) \o "}"

JsonItems(pairs, sort_keys) ==
    IF pairs = <<>> THEN ""
    ELSE "\"" \o Head(pairs)[1] \o "\": " \o JsonValue(Head(pairs)[2], sort_keys)
         \o (IF Len(pairs) > 1 THEN ", " ELSE "")
         \o JsonItems(Tail(pairs), sort_keys)

\* json.dumps(receipt) without sort_keys
DumpsInsertionOrder(pairs) == JsonValue(JDict(pairs), FALSE)

\* json.dumps(receipt, sort_keys=True)
Dumps(pairs) == JsonValue(JDict(pairs), TRUE)

\* hashlib.sha256(s.encode()).hexdigest(), taken to be collision-free
Sha256Hex(s) == "sha256(" \o s \o ")"

-----------------------------------------------------------------------------
(* Results and receipts *)

VendorJobId == "vendor-job-1"

\* str(e) of the exception of a failure kind
ExcText(kind) == "exception: " \o kind

\* the dict an adapter returns from an except clause
FailureResult(p, text) == [provider |-> p, success |-> FALSE, error |-> text]

\* lines 87-93
SimSuccess(counts, shots, t) ==
    [provider |-> "qiskit_simulator", success |-> TRUE, counts |-> counts,
     shots |-> shots, execution_time |-> t]

\* lines 143-150
IbmSuccess(backend, counts, jid, t) ==
    [provider |-> "ibm", backend |-> backend, success |-> TRUE, counts |-> counts,
     job_id |-> jid, execution_time |-> t]

\* the failure of lines 152-156 with a fixed text instead of the status
IbmStatusFailureFixedText(status) ==
    FailureResult("ibm", "Job failed")

\* lines 152-156
IbmStatusFailure(status) ==
    FailureResult("ibm", "Job status: " \o status)

\* lines 194-200
GoogleSuccess(processor, blob, t) ==
    [provider |-> "google", processor |-> processor, success |-> TRUE,
     results |-> blob, execution_time |-> t]

\* lines 235-241
IonqSuccess(blob, jid, t) ==
    [provider |-> "ionq", success |-> TRUE, results |-> blob, job_id |-> jid,
     execution_time |-> t]

\* generate_receipt, lines 292-303: the receipt before the digest is set;
\* t1 and t2 are the two readings of time.time()
ReceiptBody(res, jid, t1, t2) ==
    LET base == << <<"job_id", JStr(jid)>>,
                   <<"provider", JStr(Get(res, "provider", "unknown"))>>,
                   <<"success", JBool(Get(res, "success", FALSE))>>,
                   <<"execution_time", JFloat(Get(res, "execution_time", t1))>>,
                   <<"timestamp", JInt(t2)>> >>
    IN  IF Get(res, "success", FALSE)
        THEN DictSet(
               DictSet(
                 DictSet(base, "counts", JDict(Get(res, "counts", <<>>))),
                 "shots", JInt(Get(res, "shots", 0))),
               "job_id", JStr(Get(res, "job_id", jid)))
        ELSE base

\* generate_receipt, lines 305-307
ReceiptDigest(body) == Sha256Hex(Dumps(body))

\* a generate_receipt that hashes before the fields of a success are added
GenerateReceiptHashedEarly(res, jid, t1, t2) ==
    LET body == ReceiptBody(res, jid, t1, t2)
    IN  DictSet(body, "digest",
                JStr(ReceiptDigest(ReceiptBody(FailureResult("", ""), jid, t1, t2))))

\* generate_receipt
GenerateReceipt(res, jid, t1, t2) ==
    LET body == ReceiptBody(res, jid, t1, t2)
    IN  DictSet(body, "digest", JStr(ReceiptDigest(body)))

\* main, lines 344-348
ProofBody(jid, rcpt) ==
    [job_id |-> jid, proof_type |-> "QuantumCompute", receipt |-> rcpt]

\* The backend.  A basis state gives each qubit a bit; the run starts in the
\* state of all zeros (QuantumCircuit(num_qubits), line 65).
ZeroState(n) == [q \in 0..(n - 1) |-> 0]

Flip(s, q) == [s EXCEPT ![q] = 1 - s[q]]

\* the basis states that can be measured after one operation, from the states
\* in S: h puts its qubit in both values, cx flips its target where its
\* control is 1, rz changes phases only, ry by an angle other than 0 puts its
\* qubit in both values
ApplyOp(S, op) ==
    IF op.name = "h" \/ (op.name = "ry" /\ op.params[1] # 0)
    THEN S \cup { Flip(s, op.qubits[1]) : s \in S }
    ELSE IF op.name = "cx"
    THEN { IF s[op.qubits[1]] = 1 THEN Flip(s, op.qubits[2]) ELSE s : s \in S }
    ELSE S

RECURSIVE Outcomes(_, _)
Outcomes(ops, S) ==
    IF ops = <<>> THEN S ELSE Outcomes(Tail(ops), ApplyOp(S, Head(ops)))

\* the key of get_counts for a basis state: one character per qubit, qubit 0
\* last
RECURSIVE BitString(_, _)
BitString(s, n) ==
    IF n = 0 THEN "" ELSE (IF s[n - 1] = 0 THEN "0" ELSE "1") \o BitString(s, n - 1)

AllStates(n) == [0..(n - 1) -> {0, 1}]

\* the dicts a run of `shots` shots may return when the states in S can be
\* measured: every shot gives one state of S, states that were not measured
\* have no key, and the dict may list its keys in any order (sampled: all
\* shots on one state, or the shots split over two)
CountsOver(S, n, shots) ==
    LET keys == { BitString(s, n) : s \in S } IN
    { << <<k, JInt(shots)>> >> : k \in keys }
    \cup { << <<k[1], JInt(shots \div 2)>>, <<k[2], JInt(shots - shots \div 2)>> >> :
             k \in { kk \in keys \X keys : kk[1] # kk[2] } }

\* lines 83-85: get_counts of the qasm simulator after measure_all, for the
\* operations ops on n qubits
MeasuredCounts(ops, n, shots) == CountsOver(Outcomes(ops, {ZeroState(n)}), n, shots)

\* lines 140-141: get_counts of a job of the ibm backend, a device with noise:
\* any state may be measured (sampled: all shots on one state)
DeviceCounts(n, shots) == { << <<BitString(st, n), JInt(shots)>> >> : st \in AllStates(n) }

-----------------------------------------------------------------------------
(* The main flow *)

Providers == {"qiskit_simulator", "ibm", "google", "ionq", "rigetti"}

JobIds == {"quantum-job-unknown"}

IbmStatuses == {"QUEUED", "RUNNING", "DONE", "ERROR", "CANCELLED"}
IonqStatuses == {"submitted", "running", "completed", "failed", "canceled"}

\* the statuses a vendor may move a job to from status s
VendorNext(s) ==
    CASE s = "QUEUED" -> {"RUNNING", "CANCELLED"}
      [] s = "RUNNING" -> {"DONE", "ERROR", "CANCELLED"}
      [] s = "submitted" -> {"running", "canceled"}
      [] s = "running" -> {"completed", "failed", "canceled"}
      [] OTHER -> {}

\* time.time(): not before the last reading
Times == clock..MaxTime

NoHistory == "none"

Init ==
    /\ provider \in Providers
    /\ config = ConfigOf(provider)
    /\ circuit \in Circuits
    /\ job_id \in JobIds
    /\ pc = "start"
    /\ wait_time = 0
    /\ vstatus = "none"
    /\ submitted = <<>>
    /\ result = EmptyDict
    /\ receipt = <<>>
    /\ raised = "none"
    /\ posts = <<>>
    /\ postOutcome = NoHistory
    /\ ionqPolls = 0
    /\ clock = 1
    /\ polls = 0
    /\ sleeps = 0
    /\ loopExit = NoHistory
    /\ checkStatus = NoHistory
    /\ msgStatus = NoHistory
    /\ failure = {}
    /\ lateFailure = FALSE
    /\ bodyA = <<>> /\ bodyB = <<>> /\ digA = "" /\ digB = ""

digestVars == <<bodyA, bodyB, digA, digB>>
inputVars == <<provider, config, circuit, job_id>>
ibmHistory == <<polls, sleeps, loopExit, checkStatus, msgStatus>>

\* a try statement of the ionq adapter that ends before the polling loop
InTryWithoutIonqPolling(adapter, step) ==
    ~(adapter = "ionq" /\ step \in {"build", "poll"})

\* try statements that begin after the import statements of the adapters
InTryWithoutImport(adapter, step) ==
    ~(adapter = "ionq" /\ step = "build") /\ step # "import"

\* the part of each adapter that its try statement covers: all of the
\* simulator (57-99), ibm (104-168) and google (173-206) adapters; of the ionq
\* adapter the lines 224-254, which leaves the building of the request outside
InTry(adapter, step) == ~(adapter = "ionq" /\ step = "build")

\* results that carry the name of the adapter as their "provider"
ProviderNameOfAdapter(adapter) == adapter

\* the "provider" an adapter writes into its results
ProviderName(adapter) == IF adapter = "simulator" THEN "qiskit_simulator" ELSE adapter

\* an adapter returns res: main goes on to generate_receipt
Return(res) ==
    /\ result' = res
    /\ pc' = "receipt"
    /\ raised' = raised

\* an adapter goes on to its next step
Goto(next) ==
    /\ pc' = next
    /\ result' = result
    /\ raised' = raised

\* an exception with str(e) = text is raised at `step` of `adapter`: the except
\* clause turns it into a result (text: what the clause stores as "error"), or
\* it leaves execute_circuit and main
Throw(adapter, step, exc, text) ==
    IF InTry(adapter, step)
    THEN Return(FailureResult(ProviderName(adapter), text))
    ELSE /\ raised' = exc
         /\ pc' = "crashed"
         /\ result' = result

\* a failure of kind `kind` happens; late: during or after submission
Fail(kind, late) ==
    /\ failure' = failure \cup {kind}
    /\ lateFailure' = (lateFailure \/ late)

NoFail == UNCHANGED <<failure, lateFailure>>

\* main, lines 333-334: execute_circuit chooses the adapter
Execute ==
    /\ pc = "start"
    /\ LET d == Dispatch(provider, config) IN
         IF d = "ValueError"
         THEN /\ raised' = "ValueError"
              /\ pc' = "crashed"
         ELSE /\ raised' = raised
              /\ pc' = d
    /\ UNCHANGED <<inputVars, wait_time, vstatus, submitted, result, receipt,
                   posts, postOutcome, ionqPolls,
                   clock, ibmHistory, failure, lateFailure, digestVars>>

\* _execute_qiskit_simulator
SimExecute ==
    /\ pc = "simulator"
    /\ \E outcome \in {"ok", "ImportError", "job_error"} :
         LET built == BuildCircuit(circuit) IN
         IF outcome = "ImportError"
         THEN /\ Throw("simulator", "import", outcome, ExcText(outcome))
              /\ Fail("import", FALSE)
              /\ UNCHANGED <<submitted, clock>>
         ELSE IF ~built.ok
         THEN /\ Throw("simulator", "build", built.error, ExcText(built.error))
              /\ Fail("build", FALSE)
              /\ UNCHANGED <<submitted, clock>>
         ELSE /\ submitted' = Append(submitted,
                     [backend |-> "qasm_simulator", ops |-> built.ops, shots |-> MainShots])
              /\ IF outcome = "job_error"
                 THEN /\ Throw("simulator", "run", outcome, ExcText(outcome))
                      /\ Fail("job_error", TRUE)
                      /\ UNCHANGED clock
                 ELSE \E counts \in MeasuredCounts(built.ops, circuit.num_qubits, MainShots),
                         t \in Times :
                      /\ Return(SimSuccess(counts, MainShots, t))
                      /\ clock' = t
                      /\ NoFail
    /\ UNCHANGED <<inputVars, wait_time, vstatus, receipt, posts, postOutcome, ionqPolls,
                   ibmHistory, digestVars>>

-----------------------------------------------------------------------------
(* _execute_ibm *)

\* the loop test with the bound included: one sleep more
IbmLoopCondInclusive(status, wait) ==
    status \notin {"DONE", "ERROR"} /\ wait <= max_wait

\* a loop test for which DONE is the only terminal status
IbmLoopCondDoneOnly(status, wait) ==
    status # "DONE" /\ wait < max_wait

\* line 135: the test of the polling loop, on the status just read
IbmLoopCond(status, wait) ==
    status \notin {"DONE", "ERROR"} /\ wait < max_wait

\* line 139: the test after the loop, on the status read again
IbmIsDone(status) == status = "DONE"

\* an ibm adapter that writes the backend it fell back to into the bridge's
\* configuration
IbmSetupStoresFallback ==
    /\ pc = "ibm"
    /\ \E outcome \in {"ok", "auth"} :
         IF outcome # "ok"
         THEN /\ Throw("ibm", "setup", outcome, ExcText(outcome))
              /\ Fail(outcome, FALSE)
              /\ UNCHANGED config
         ELSE /\ Goto("ibm_submit")
              /\ NoFail
              /\ config' = [config EXCEPT !.backend = "simulator_stabilizer"]
    /\ UNCHANGED <<provider, circuit, job_id, wait_time, vstatus, submitted, receipt,
                   posts, postOutcome, ionqPolls, clock, ibmHistory, digestVars>>

\* lines 104-127: import, authenticate, find the backend, build the circuit
IbmSetup ==
    /\ pc = "ibm"
    /\ \E outcome \in {"ok", "ImportError", "auth", "transport"} :
         LET built == BuildCircuit(circuit) IN
         IF outcome = "ImportError"
         THEN /\ Throw("ibm", "import", outcome,
                   "qiskit-ibm-provider not installed. Install with: pip install qiskit-ibm-provider")
              /\ Fail("import", FALSE)
         ELSE IF outcome # "ok"
         THEN /\ Throw("ibm", "setup", outcome, ExcText(outcome))
              /\ Fail(outcome, FALSE)
         ELSE IF ~built.ok
         THEN /\ Throw("ibm", "build", built.error, ExcText(built.error))
              /\ Fail("build", FALSE)
         ELSE /\ Goto("ibm_submit")
              /\ NoFail
    /\ UNCHANGED <<inputVars, wait_time, vstatus, submitted, receipt, posts, postOutcome, ionqPolls,
                   clock, ibmHistory, digestVars>>

\* lines 130-134: execute(qc, backend, shots), then wait_time = 0
IbmSubmit ==
    /\ pc = "ibm_submit"
    /\ submitted' = Append(submitted,
           [backend |-> config.backend, ops |-> BuildCircuit(circuit).ops,
            shots |-> MainShots])
    /\ \E outcome \in {"ok", "transport"} :
         IF outcome = "ok"
         THEN /\ vstatus' = "QUEUED"
              /\ wait_time' = 0
              /\ Goto("ibm_loop")
              /\ NoFail
         ELSE /\ Throw("ibm", "submit", outcome, ExcText(outcome))
              /\ Fail(outcome, TRUE)
              /\ UNCHANGED <<vstatus, wait_time>>
    /\ UNCHANGED <<inputVars, receipt,
                   posts, postOutcome, ionqPolls, clock, ibmHistory, digestVars>>

\* lines 135-137: one evaluation of the loop test (job.status() is read before
\* wait_time is compared) and, when it holds, the body: sleep 5, wait_time += 5
IbmPoll ==
    /\ pc = "ibm_loop"
    /\ polls' = polls + 1
    /\ \E outcome \in {"ok", "transport"} :
         IF outcome # "ok"
         THEN /\ Throw("ibm", "poll", outcome, ExcText(outcome))
              /\ Fail(outcome, TRUE)
              /\ UNCHANGED <<wait_time, sleeps, loopExit>>
         ELSE IF IbmLoopCond(vstatus, wait_time)
         THEN /\ sleeps' = sleeps + 1
              /\ wait_time' = wait_time + PollInterval
              /\ Goto("ibm_loop")
              /\ UNCHANGED loopExit
              /\ NoFail
         ELSE /\ loopExit' = vstatus
              /\ Goto("ibm_check")
              /\ UNCHANGED <<wait_time, sleeps>>
              /\ NoFail
    /\ UNCHANGED <<inputVars, vstatus, submitted, receipt, posts, postOutcome, ionqPolls, clock,
                   checkStatus, msgStatus, digestVars>>

\* lines 139-150: job.status() is read again; on DONE the result is fetched
IbmCheck ==
    /\ pc = "ibm_check"
    /\ polls' = polls + 1
    /\ \E outcome \in {"ok", "transport", "malformed"} :
         IF outcome = "transport"
         THEN /\ Throw("ibm", "check", outcome, ExcText(outcome))
              /\ Fail(outcome, TRUE)
              /\ UNCHANGED <<checkStatus, clock>>
         ELSE /\ checkStatus' = vstatus
              /\ IF ~IbmIsDone(vstatus)
                 THEN /\ outcome = "ok"
                      /\ Goto("ibm_msg")
                      /\ UNCHANGED clock
                      /\ NoFail
                 ELSE IF outcome = "malformed"
                 THEN /\ Throw("ibm", "result", outcome, ExcText(outcome))
                      /\ Fail(outcome, TRUE)
                      /\ UNCHANGED clock
                 ELSE \E counts \in DeviceCounts(circuit.num_qubits, MainShots),
                         t \in Times :
                      /\ Return(IbmSuccess(config.backend, counts, VendorJobId, t))
                      /\ clock' = t
                      /\ NoFail
    /\ UNCHANGED <<inputVars, wait_time, vstatus, submitted, receipt, posts, postOutcome, ionqPolls,
                   sleeps, loopExit, msgStatus, digestVars>>

\* an ibm adapter that hands the circuit to the backend again, once, when the
\* job did not end as DONE
IbmMsgResubmit ==
    /\ pc = "ibm_msg"
    /\ polls' = polls + 1
    /\ msgStatus' = vstatus
    /\ IF Len(submitted) < 2
       THEN Goto("ibm_submit")
       ELSE Return(IbmStatusFailure(vstatus))
    /\ NoFail
    /\ UNCHANGED <<inputVars, wait_time, vstatus, submitted, receipt, posts, postOutcome, ionqPolls,
                   clock, sleeps, loopExit, checkStatus, digestVars>>

\* lines 152-156: job.status() is read a third time, for the error text
IbmMsg ==
    /\ pc = "ibm_msg"
    /\ polls' = polls + 1
    /\ \E outcome \in {"ok", "transport"} :
         IF outcome # "ok"
         THEN /\ Throw("ibm", "msg", outcome, ExcText(outcome))
              /\ Fail(outcome, TRUE)
              /\ UNCHANGED msgStatus
         ELSE /\ msgStatus' = vstatus
              /\ Return(IbmStatusFailure(vstatus))
              /\ NoFail
    /\ UNCHANGED <<inputVars, wait_time, vstatus, submitted, receipt, posts, postOutcome, ionqPolls,
                   clock, sleeps, loopExit, checkStatus, digestVars>>

\* the vendor moves the submitted job on, at any time while the call is polling
VendorStep ==
    /\ pc \in {"ibm_loop", "ibm_check", "ibm_msg", "ionq_poll"}
    /\ \E s \in VendorNext(vstatus) :
         /\ vstatus' = s
         /\ IF s \in {"ERROR", "failed"} THEN Fail("job_error", TRUE) ELSE NoFail
    /\ UNCHANGED <<inputVars, pc, wait_time, submitted, result, receipt, raised, posts,
                   postOutcome, ionqPolls,
                   clock, ibmHistory, digestVars>>

-----------------------------------------------------------------------------
(* _execute_google *)

GoogleExecute ==
    /\ pc = "google"
    /\ \E outcome \in {"ok", "ImportError", "auth", "transport"} :
         LET built == BuildCirqCircuit(circuit) IN
         IF outcome = "ImportError"
         THEN /\ Throw("google", "import", outcome, ExcText(outcome))
              /\ Fail("import", FALSE)
              /\ UNCHANGED <<submitted, clock>>
         ELSE IF ~built.ok
         THEN /\ Throw("google", "build", built.error, ExcText(built.error))
              /\ Fail("build", FALSE)
              /\ UNCHANGED <<submitted, clock>>
         ELSE IF outcome = "auth"
         THEN /\ Throw("google", "setup", outcome, ExcText(outcome))
              /\ Fail(outcome, FALSE)
              /\ UNCHANGED <<submitted, clock>>
         ELSE /\ submitted' = Append(submitted,
                     [backend |-> config.processor, ops |-> built.ops, shots |-> MainShots])
              /\ IF outcome = "transport"
                 THEN /\ Throw("google", "run", outcome, ExcText(outcome))
                      /\ Fail(outcome, TRUE)
                      /\ UNCHANGED clock
                 ELSE \E t \in Times :
                      /\ Return(GoogleSuccess(config.processor, "cirq.Result", t))
                      /\ clock' = t
                      /\ NoFail
    /\ UNCHANGED <<inputVars, wait_time, vstatus, receipt, posts, postOutcome, ionqPolls,
                   ibmHistory, digestVars>>

-----------------------------------------------------------------------------
(* _execute_ionq *)

\* lines 211-227: the request is built before the try; the POST, its status
\* check and the decoding of its answer are inside it
IonqSubmit ==
    /\ pc = "ionq"
    /\ LET built == BuildIonqCircuit(circuit) IN
       IF ~built.ok
       THEN /\ Throw("ionq", "build", built.error, ExcText(built.error))
            /\ Fail("build", FALSE)
            /\ UNCHANGED <<submitted, vstatus>>
       ELSE /\ submitted' = Append(submitted,
                   [backend |-> "qpu", ops |-> built.ops, shots |-> MainShots])
            /\ \E outcome \in {"ok", "transport", "auth", "malformed"} :
                 IF outcome = "ok"
                 THEN /\ vstatus' = "submitted"
                      /\ Goto("ionq_poll")
                      /\ NoFail
                 ELSE /\ Throw("ionq", "post", outcome, ExcText(outcome))
                      /\ Fail(outcome, TRUE)
                      /\ vstatus' = vstatus
    /\ UNCHANGED <<inputVars, wait_time, receipt, posts, postOutcome, ionqPolls, clock,
                   ibmHistory, digestVars>>

\* the errors a failed ionq job may carry: the vendor's text, or the default
\* of status.get("error", "Unknown error")
IonqErrors == {"Unknown error", "qpu offline"}

CountPoll(n) == IF n < MaxIonqPolls THEN n + 1 ELSE n

\* an ionq adapter with a wait bound: after MaxIonqPolls reads of a status
\* that is not terminal it returns a timeout failure
IonqPollBounded ==
    /\ pc = "ionq_poll"
    /\ ionqPolls' = CountPoll(ionqPolls)
    /\ IF vstatus = "completed"
       THEN \E t \in Times :
            /\ Return(IonqSuccess("results", VendorJobId, t))
            /\ clock' = t
       ELSE IF vstatus = "failed"
       THEN /\ Return(FailureResult("ionq", "Unknown error"))
            /\ UNCHANGED clock
       ELSE IF ionqPolls >= MaxIonqPolls - 1
       THEN /\ Return(FailureResult("ionq", "timeout"))
            /\ UNCHANGED clock
       ELSE /\ Goto("ionq_poll")
            /\ UNCHANGED clock
    /\ NoFail
    /\ UNCHANGED <<inputVars, wait_time, vstatus, submitted, receipt, posts, postOutcome,
                   ibmHistory, digestVars>>

\* lines 231-248: one turn of the while True loop: the status is fetched
\* (line 232); "completed" and "failed" return, any other status sleeps 5
\* seconds and polls again, with no bound on the number of turns
IonqPoll ==
    /\ pc = "ionq_poll"
    /\ ionqPolls' = CountPoll(ionqPolls)
    /\ \E outcome \in {"ok", "transport", "malformed"} :
         IF outcome # "ok"
         THEN /\ Throw("ionq", "poll", outcome, ExcText(outcome))
              /\ Fail(outcome, TRUE)
              /\ UNCHANGED clock
         ELSE IF vstatus = "completed"
         THEN \E t \in Times :
              /\ Return(IonqSuccess("results", VendorJobId, t))
              /\ clock' = t
              /\ NoFail
         ELSE IF vstatus = "failed"
         THEN /\ \E e \in IonqErrors : Return(FailureResult("ionq", e))
              /\ UNCHANGED clock
              /\ NoFail
         ELSE /\ Goto("ionq_poll")
              /\ UNCHANGED clock
              /\ NoFail
    /\ UNCHANGED <<inputVars, wait_time, vstatus, submitted, receipt, posts, postOutcome,
                   ibmHistory, digestVars>>

-----------------------------------------------------------------------------
(* main, after execute_circuit *)

\* a main that keeps a receipt of successful executions only
MakeReceiptOfSuccess ==
    /\ pc = "receipt"
    /\ \E t1 \in Times : \E t2 \in t1..MaxTime :
         /\ receipt' = IF Get(result, "success", FALSE)
                       THEN GenerateReceipt(result, job_id, t1, t2)
                       ELSE receipt
         /\ clock' = t2
    /\ pc' = "post"
    /\ UNCHANGED <<inputVars, wait_time, vstatus, submitted, result, raised,
                   posts, postOutcome, ionqPolls,
                   ibmHistory, failure, lateFailure, digestVars>>

\* line 337: receipt = bridge.generate_receipt(result, job_id)
MakeReceipt ==
    /\ pc = "receipt"
    /\ \E t1 \in Times : \E t2 \in t1..MaxTime :
         /\ receipt' = GenerateReceipt(result, job_id, t1, t2)
         /\ clock' = t2
    /\ pc' = "post"
    /\ UNCHANGED <<inputVars, wait_time, vstatus, submitted, result, raised,
                   posts, postOutcome, ionqPolls,
                   ibmHistory, failure, lateFailure, digestVars>>

\* a main that sends the POST a second time when the first one failed
SubmitProofWithRetry ==
    /\ pc = "post"
    /\ \E outcome \in {"ok", "transport"} :
         /\ posts' = IF outcome = "ok"
                     THEN Append(posts, ProofBody(job_id, receipt))
                     ELSE posts \o << ProofBody(job_id, receipt),
                                      ProofBody(job_id, receipt) >>
         /\ postOutcome' = outcome
         /\ pc' = "done"
    /\ UNCHANGED <<inputVars, wait_time, vstatus, submitted, result, receipt, raised,
                   ionqPolls, clock, ibmHistory, failure, lateFailure, digestVars>>

\* a main whose POST is not inside a try: its failure leaves main
SubmitProofUncaught ==
    /\ pc = "post"
    /\ posts' = Append(posts, ProofBody(job_id, receipt))
    /\ \E outcome \in {"ok", "transport"} :
         /\ postOutcome' = outcome
         /\ pc' = IF outcome = "ok" THEN "done" ELSE "crashed"
         /\ raised' = IF outcome = "ok" THEN raised ELSE "ConnectionError"
    /\ UNCHANGED <<inputVars, wait_time, vstatus, submitted, result, receipt,
                   ionqPolls, clock, ibmHistory, failure, lateFailure, digestVars>>

\* a main that calls generate_receipt again for the body of the POST
SubmitProofRegenerates ==
    /\ pc = "post"
    /\ \E t1 \in Times : \E t2 \in t1..MaxTime :
         posts' = Append(posts, ProofBody(job_id, GenerateReceipt(result, job_id, t1, t2)))
    /\ \E outcome \in {"ok", "transport"} :
         /\ postOutcome' = outcome
         /\ pc' = "done"
    /\ UNCHANGED <<inputVars, wait_time, vstatus, submitted, result, receipt, raised,
                   ionqPolls, clock, ibmHistory, failure, lateFailure, digestVars>>

\* lines 340-357: the POST to the proof service, whose failure is printed
SubmitProof ==
    /\ pc = "post"
    /\ posts' = Append(posts, ProofBody(job_id, receipt))
    /\ \E outcome \in {"ok", "transport"} :
         /\ postOutcome' = outcome
         /\ pc' = "done"
    /\ UNCHANGED <<inputVars, wait_time, vstatus, submitted, result, receipt, raised,
                   ionqPolls, clock, ibmHistory, failure, lateFailure, digestVars>>

Next ==
    \/ Execute
    \/ SimExecute
    \/ IbmSetup
    \/ IbmSubmit
    \/ IbmPoll
    \/ IbmCheck
    \/ IbmMsg
    \/ VendorStep
    \/ GoogleExecute
    \/ IonqSubmit
    \/ IonqPoll
    \/ MakeReceipt
    \/ SubmitProof

Spec == Init /\ [][Next]_vars

-----------------------------------------------------------------------------
\* _execute_ibm is sequential code whose statements each come to an end (a
\* vendor call returns or raises, time.sleep(5) returns): a step of the
\* adapter that is possible is eventually taken
FairSpec ==
    /\ Spec
    /\ WF_vars(IbmSetup)
    /\ WF_vars(IbmSubmit)
    /\ WF_vars(IbmPoll)
    /\ WF_vars(IbmCheck)
    /\ WF_vars(IbmMsg)

(* Properties of the vendor-A polling loop *)

Returned == pc \in {"receipt", "post", "done"}

\* the polling loop was left on the wait bound: the status its last test read
\* was neither DONE nor ERROR
TimedOutExit == loopExit \notin {NoHistory, "DONE", "ERROR"}

\* an ibm call has returned, its vendor never reached a terminal status and
\* no vendor call failed
StuckRun ==
    /\ Returned
    /\ loopExit # NoHistory
    /\ vstatus \notin {"DONE", "ERROR"}
    /\ failure = {}

\* C1 as stated: with a vendor that never becomes terminal, the loop is left
\* only once the elapsed wait exceeds the bound, never while it is less than
\* or equal to the bound.
C1_LeftOnlyAboveBound ==
    TimedOutExit => wait_time > max_wait

\* C1, amended: with a vendor that never becomes terminal, the loop is left
\* exactly when the elapsed wait first reaches the bound: not while it is less
\* than the bound, and the wait before the last sleep was still below it; the
\* elapsed wait is the number of sleeps times the interval and never goes
\* beyond the bound.
C1_LeftWhenBoundReached ==
    /\ wait_time = sleeps * PollInterval
    /\ wait_time <= max_wait
    /\ TimedOutExit => /\ wait_time >= max_wait
                       /\ wait_time - PollInterval < max_wait

C1_Witness ==
    /\ pc = "ibm_check"
    /\ TimedOutExit
    /\ loopExit = "RUNNING"
    /\ wait_time = max_wait

\* C2 as stated: with a wait bound of N intervals and a vendor that stays
\* non-terminal, the call returns after exactly N status polls.
C2_ReturnsAfterNPolls ==
    StuckRun => polls = max_wait \div PollInterval

\* C2, amended: with the wait bound of N = 60 intervals and a vendor that stays
\* non-terminal, the call returns after exactly N sleeps and N + 3 status
\* polls: N + 1 by the loop test, one by the DONE test, one for the error text.
C2_ReturnsAfterNSleeps ==
    StuckRun => /\ sleeps = max_wait \div PollInterval
                /\ polls = sleeps + 3

C2_Witness ==
    /\ StuckRun
    /\ pc = "done"
    /\ vstatus = "RUNNING"
    /\ polls = 63

-----------------------------------------------------------------------------
(* Properties of error handling *)

\* the vendor-side failures: authentication, transport, a malformed answer,
\* a job the vendor reports as failed
VendorFailures == {"auth", "transport", "malformed", "job_error"}

Ended == pc \in {"done", "crashed"}

\* C4: for every provider, after a vendor-side failure at any step of
\* execute_circuit no exception reaches the caller, and the value the call
\* returns has success = false and an error string.
C4_VendorFailureIsCaptured ==
    (failure \cap VendorFailures # {}) =>
        /\ raised = "none"
        /\ pc # "crashed"
        /\ Returned => /\ result.success = FALSE
                       /\ "error" \in DOMAIN result
                       /\ result.error # ""

C4_Witness ==
    /\ Returned
    /\ provider = "ionq"
    /\ "transport" \in failure
    /\ vstatus = "running"
    /\ result.success = FALSE
    /\ result.error = ExcText("transport")

\* C5: every execution of the main flow with an error during or after the
\* submission to a backend (a vendor call that fails, or a result returned
\* with success = false once the circuit was handed over) ends with a receipt
\* that has success = false and a digest; none ends without a receipt.
ErrorAfterSubmission ==
    \/ lateFailure
    \/ submitted # <<>> /\ Returned /\ ~result.success

C5_LateErrorHasReceipt ==
    (Ended /\ ErrorAfterSubmission) =>
        /\ pc = "done"
        /\ receipt # <<>>
        /\ Lookup(receipt, "success") = JBool(FALSE)
        /\ "digest" \in Keys(receipt)
        /\ Lookup(receipt, "digest") # JStr("")

C5_Witness ==
    /\ pc = "done"
    /\ lateFailure
    /\ TimedOutExit
    /\ Lookup(receipt, "success") = JBool(FALSE)
    /\ "digest" \in Keys(receipt)

-----------------------------------------------------------------------------
(* Properties of circuit validation *)

KnownKinds == {"h", "cx", "rz", "ry"}
RotationKinds == {"rz", "ry"}

GateIndices(c) == 1..Len(c.gates)

HasUnknownGate(c) == \E i \in GateIndices(c) : c.gates[i].type \notin KnownKinds

HasBadIndex(c) ==
    \E i \in GateIndices(c) : \E k \in 1..Len(c.gates[i].qubits) :
        c.gates[i].qubits[k] >= c.num_qubits

BareRotations(c) ==
    { i \in GateIndices(c) :
        c.gates[i].type \in RotationKinds /\ c.gates[i].angle = NoAngle }

\* C6: a circuit with a gate whose kind is outside {h, cx, rz, ry} is rejected
\* before any adapter is invoked: nothing is handed to a backend and no receipt
\* is produced for it.
C6_UnknownGateRejected ==
    HasUnknownGate(circuit) =>
        /\ submitted = <<>>
        /\ receipt = <<>>

\* C7: a circuit in which a gate has a qubit index >= num_qubits is rejected
\* before any network action or submission, and no receipt is produced.
C7_BadIndexRejected ==
    HasBadIndex(circuit) =>
        /\ submitted = <<>>
        /\ receipt = <<>>

QiskitAdapter == Dispatch(provider, config) \in {"simulator", "ibm"}

RotationOps(ops) ==
    { j \in 1..Len(ops) : "name" \in DOMAIN ops[j] /\ ops[j].name \in RotationKinds }

-----------------------------------------------------------------------------
(* Properties of the receipt digest *)

\* C10: for every receipt returned by generate_receipt (and every receipt
\* handed to the proof service), removing the digest field, serializing the
\* remaining fields with sorted keys and hashing reproduces the stored digest.
DigestCovers(rcpt) ==
    /\ "digest" \in Keys(rcpt)
    /\ Lookup(rcpt, "digest") = JStr(Sha256Hex(Dumps(DictDel(rcpt, "digest"))))

C10_DigestReproducible ==
    /\ receipt # <<>> => DigestCovers(receipt)
    /\ \A i \in 1..Len(posts) : DigestCovers(posts[i].receipt)

C10_Witness ==
    /\ pc = "done"
    /\ Len(posts) = 1
    /\ Lookup(receipt, "success") = JBool(TRUE)
    /\ Keys(receipt) = {"job_id", "provider", "success", "execution_time",
                        "timestamp", "counts", "shots", "digest"}
    /\ DigestCovers(receipt)

-----------------------------------------------------------------------------
(* The digest as a function of the receipt body.  Two bodies are drawn: each *)
(* is a body generate_receipt builds from a result an adapter returns, with  *)
(* its fields (and the keys of its counts) inserted in some order; each is   *)
(* then hashed as lines 306-307 hash it.                                     *)

DigestJobIds == {"quantum-job-unknown", "job-7"}

\* results the adapters return
DigestResults ==
    { SimSuccess(c, MainShots, 1) :
          c \in MeasuredCounts(BuildCircuit(BellCircuit).ops, DefaultNumQubits, MainShots) }
    \cup { IbmSuccess("ibmq_qasm_simulator", c, VendorJobId, 1) :
              c \in MeasuredCounts(BuildCircuit(BellCircuit).ops, DefaultNumQubits,
                                   MainShots) }
    \cup { IbmStatusFailure("RUNNING"),
           FailureResult("ibm", ExcText("transport")),
           FailureResult("ionq", "Unknown error"),
           GoogleSuccess("rainbow", "cirq.Result", 1) }

DigestBodies ==
    { ReceiptBody(r, j, t, t) : r \in DigestResults, j \in DigestJobIds, t \in 1..MaxTime }

Reverse(seq) == [i \in 1..Len(seq) |-> seq[Len(seq) + 1 - i]]

Rotate(seq) == IF seq = <<>> THEN seq ELSE Append(Tail(seq), Head(seq))

\* the same dict with its items inserted in another order
Reorderings(body) == { body, Reverse(body), Rotate(body), Reverse(Rotate(body)) }

\* dict equality: the same keys with the same values, whatever the order
RECURSIVE DictEq(_, _)
DictEq(a, b) ==
    /\ Keys(a) = Keys(b)
    /\ Len(a) = Len(b)
    /\ \A k \in Keys(a) :
         LET va == Lookup(a, k)
             vb == Lookup(b, k)
         IN  /\ va[1] = vb[1]
             /\ IF va[1] = "dict" THEN DictEq(va[2], vb[2]) ELSE va[2] = vb[2]

\* the keys on which two dicts with the same keys differ
DifferingKeys(a, b) ==
    { k \in Keys(a) \cap Keys(b) : ~DictEq(<<<<k, Lookup(a, k)>>>>, <<<<k, Lookup(b, k)>>>>) }

DigestInit ==
    /\ provider = "qiskit_simulator"
    /\ config = ConfigOf(provider)
    /\ circuit = BellCircuit
    /\ job_id \in JobIds
    /\ pc = "digest"
    /\ wait_time = 0
    /\ vstatus = "none"
    /\ submitted = <<>>
    /\ result = EmptyDict
    /\ receipt = <<>>
    /\ raised = "none"
    /\ posts = <<>>
    /\ postOutcome = NoHistory
    /\ ionqPolls = 0
    /\ clock = 1
    /\ polls = 0
    /\ sleeps = 0
    /\ loopExit = NoHistory
    /\ checkStatus = NoHistory
    /\ msgStatus = NoHistory
    /\ failure = {}
    /\ lateFailure = FALSE
    /\ bodyA \in DigestBodies
    /\ bodyB \in UNION { Reorderings(b) : b \in DigestBodies }
    /\ digA = ""
    /\ digB = ""

mainVars ==
    <<inputVars, pc, wait_time, vstatus, submitted, result, receipt, raised,
      posts, postOutcome, ionqPolls,
      clock, ibmHistory, failure, lateFailure>>

\* lines 306-307 on the first body
HashA ==
    /\ digA = ""
    /\ digA' = ReceiptDigest(bodyA)
    /\ UNCHANGED <<mainVars, bodyA, bodyB, digB>>

\* lines 306-307 on the second body
HashB ==
    /\ digB = ""
    /\ digB' = ReceiptDigest(bodyB)
    /\ UNCHANGED <<mainVars, bodyA, bodyB, digA>>

DigestNext == HashA \/ HashB

DigestSpec == DigestInit /\ [][DigestNext]_vars

BothHashed == digA # "" /\ digB # ""

\* C9: the digest is a function of the body's field values only: two bodies
\* with the same field values have the same digest whatever the order in
\* which their fields were inserted, and two bodies that differ in a field
\* value (in a single one in particular) have different digests.
C9_DigestOfFieldValues ==
    BothHashed =>
        /\ DictEq(bodyA, bodyB) => digA = digB
        /\ ~DictEq(bodyA, bodyB) => digA # digB
        /\ (Keys(bodyA) = Keys(bodyB) /\ Cardinality(DifferingKeys(bodyA, bodyB)) = 1)
              => digA # digB

\* the same fields inserted in another order, the counts too, hash alike
C9_Witness ==
    /\ BothHashed
    /\ bodyA # bodyB
    /\ "counts" \in Keys(bodyA) \cap Keys(bodyB)
    /\ Lookup(bodyA, "counts") # Lookup(bodyB, "counts")
    /\ bodyA[1][1] # bodyB[1][1]
    /\ DictEq(bodyA, bodyB)
    /\ digA = digB

-----------------------------------------------------------------------------
(* Properties of the results of the adapters *)

\* C11: every result an adapter returns holds a "counts" mapping exactly when
\* its success is true, and an "error" string exactly when its success is
\* false.
C11_CountsIffSuccess ==
    Returned =>
        /\ ("counts" \in DOMAIN result) <=> result.success
        /\ ("error" \in DOMAIN result) <=> ~result.success

\* the receipt of a successful execution has been generated
SuccessReceipt == receipt # <<>> /\ Lookup(receipt, "success") = JBool(TRUE)

\* C12: the receipt of every successful execution, whatever the provider,
\* carries the shot count of the request as "shots" and the measured counts
\* as "counts"; it never carries shots = 0 or an empty counts mapping.
C12_ReceiptCarriesMeasurement ==
    SuccessReceipt =>
        /\ Lookup(receipt, "shots") = JInt(MainShots)
        /\ Lookup(receipt, "shots") # JInt(0)
        /\ Lookup(receipt, "counts") # JDict(<<>>)
        /\ "counts" \in DOMAIN result =>
               Lookup(receipt, "counts") = JDict(result.counts)

-----------------------------------------------------------------------------
(* Properties of the forwarding of the receipt *)

C14_PostFailureSwallowed ==
    postOutcome = "transport" =>
        /\ pc = "done"
        /\ raised = "none"
        /\ receipt = posts[1].receipt
        /\ DigestCovers(receipt)

\* the POST of a successful execution has failed
C14_Witness ==
    /\ postOutcome = "transport"
    /\ pc = "done"
    /\ result.success
    /\ raised = "none"
    /\ DigestCovers(receipt)

-----------------------------------------------------------------------------
(* Properties of the submission *)

\* C15: within one call of execute_circuit the circuit is handed to a backend
\* at most once: no adapter submits again, or starts a second job, after a job
\* that failed, ended in error or ran into the wait bound.
C15_SubmittedAtMostOnce ==
    Len(submitted) <= 1

\* a call that has returned a failure after its only job ran into the wait
\* bound
C15_Witness ==
    /\ Returned
    /\ ~result.success
    /\ Len(submitted) = 1
    /\ TimedOutExit
    /\ msgStatus = "RUNNING"

-----------------------------------------------------------------------------
(* Properties of the translation *)

\* the qubit indices a translated gate acts on: the qubits of a qiskit or cirq
\* operation, the target and control of an ionq gate
OpQubits(op) ==
    IF "qubits" \in DOMAIN op
    THEN { op.qubits[k] : k \in 1..Len(op.qubits) }
    ELSE { op[f] : f \in DOMAIN op \cap {"target", "control"} }

GateQubits(g) == { g.qubits[k] : k \in 1..Len(g.qubits) }

OnlyKnownKinds(c) == \A i \in GateIndices(c) : c.gates[i].type \in KnownKinds

\* C16: for every adapter and every circuit of gates of the kinds
\* {h, cx, rz, ry}, the circuit handed to the backend has as many gates as the
\* input, in the same order, each acting on the qubit indices of the input
\* gate at its position.
C16_TranslationKeepsGates ==
    OnlyKnownKinds(circuit) =>
        \A j \in 1..Len(submitted) :
            /\ Len(submitted[j].ops) = Len(circuit.gates)
            /\ \A i \in 1..Len(submitted[j].ops) :
                   i \in GateIndices(circuit) =>
                       OpQubits(submitted[j].ops[i]) = GateQubits(circuit.gates[i])

\* the gate kinds the building loop of an adapter has a branch for
MappedKinds(adapter) ==
    IF adapter \in {"google", "ionq"} THEN {"h", "cx"} ELSE {"h", "cx", "rz", "ry"}

\* the circuit holds a gate of a supported kind that the selected adapter
\* has no mapping for
HasUnmappedGate ==
    \E i \in GateIndices(circuit) :
        /\ circuit.gates[i].type \in KnownKinds
        /\ circuit.gates[i].type \notin MappedKinds(Dispatch(provider, config))

\* C17: when the circuit holds a gate kind the selected vendor adapter has no
\* mapping for (rz or ry on google or ionq), the translation fails with an
\* unsupported-gate error before submission: nothing is handed to the backend
\* (neither the circuit without the gate nor one with an empty gate in its
\* place) and the call does not return a success.
C17_UnmappedGateFails ==
    HasUnmappedGate =>
        /\ submitted = <<>>
        /\ Returned => ~result.success

-----------------------------------------------------------------------------
(* Properties of an adapter that cannot be used *)

\* the client library of the selected provider could not be imported
LibraryAbsent == "import" \in failure

\* the vendor refused the credentials or the project of the configuration
ConfigRefused == "auth" \in failure

\* C18 as stated: when the client library of the selected provider is absent,
\* the call aborts with a fatal error before any submission: nothing is handed
\* to a backend, no result is returned and no receipt is produced.
C18_AbortsWithoutReceipt ==
    LibraryAbsent =>
        /\ submitted = <<>>
        /\ ~Returned
        /\ receipt = <<>>

\* C18, amended: when the client library of the selected provider is absent,
\* or the vendor refuses the configuration, the call does not abort: no
\* exception reaches the caller, the adapter returns a result with success =
\* false and an error string, and main generates a receipt with success =
\* false and sends it.  With an absent library nothing is handed to a backend.
C18_UnavailableIsCaptured ==
    (LibraryAbsent \/ ConfigRefused) =>
        /\ raised = "none"
        /\ Returned
        /\ ~result.success
        /\ "error" \in DOMAIN result
        /\ LibraryAbsent => submitted = <<>>
        /\ receipt # <<>> => Lookup(receipt, "success") = JBool(FALSE)
        /\ pc = "done" => receipt # <<>> /\ Len(posts) = 1

\* the ibm client library is absent and main has sent the failure's receipt
C18_Witness ==
    /\ LibraryAbsent
    /\ provider = "ibm"
    /\ pc = "done"
    /\ submitted = <<>>
    /\ result.error =
         "qiskit-ibm-provider not installed. Install with: pip install qiskit-ibm-provider"
    /\ Lookup(receipt, "success") = JBool(FALSE)
    /\ Len(posts) = 1

-----------------------------------------------------------------------------
(* Properties of the outcome of the vendor-A adapter *)

\* a call to the vendor (job.status(), job.result()) has raised
VendorCallRaised == failure \cap {"transport", "malformed"} # {}

\* C19: the ibm adapter returns success = true exactly when the status of the
\* job at the end of polling (the status read by the loop test that left the
\* loop) was DONE; for every other status at the end of polling (ERROR, or a
\* non-terminal status at the bound) it returns success = false with an
\* error.  Stated for calls in which no vendor call raised.
C19_SuccessIffDoneWhenPollingEnded ==
    (Returned /\ loopExit # NoHistory /\ ~VendorCallRaised) =>
        /\ result.success <=> loopExit = "DONE"
        /\ loopExit # "DONE" => "error" \in DOMAIN result

-----------------------------------------------------------------------------
(* Termination of the vendor-A adapter *)

MaxSleeps == max_wait \div PollInterval

\* C20: the ibm adapter always terminates: whatever statuses the vendor
\* reports, the polling loop sleeps at most 300 / 5 = 60 times, and a call
\* that has entered the adapter returns a result.
C20_IbmTerminates ==
    /\ [](sleeps <= MaxSleeps)
    /\ (pc = "ibm") ~> Returned

\* a call has returned after the full 60 sleeps
C20_Witness ==
    /\ Returned
    /\ provider = "ibm"
    /\ sleeps = MaxSleeps
    /\ wait_time = max_wait

-----------------------------------------------------------------------------
(* Properties of the vendor-C polling loop *)

IonqTerminal == {"completed", "failed"}

\* the ionq adapter has returned after at least one read of the job's status
IonqReturnedFromPolling ==
    /\ Dispatch(provider, config) = "ionq"
    /\ Returned
    /\ ionqPolls > 0

\* C21: after a successful submit the ionq adapter keeps polling and returns
\* only when a poll observes "completed" (success = true with the vendor's
\* results), or "failed" (success = false with the vendor's error), or a poll
\* raises; it has no wait bound: a poll that reads any other status and does
\* not raise leaves the call polling, and no result is a timeout.
C21_IonqPollsUntilTerminal ==
    /\ [](IonqReturnedFromPolling =>
            /\ \/ /\ vstatus = "completed"
                  /\ result.success
                  /\ "results" \in DOMAIN result
               \/ /\ vstatus = "failed"
                  /\ ~result.success
                  /\ result.error \in IonqErrors
               \/ /\ VendorCallRaised
                  /\ ~result.success
            /\ ~result.success => result.error # "timeout")
    /\ [][(pc = "ionq_poll" /\ vstatus \notin IonqTerminal /\ failure' = failure)
              => pc' = "ionq_poll"]_vars

\* the call is still polling after every counted read of a status that the
\* vendor will never change again
C21_Witness ==
    /\ pc = "ionq_poll"
    /\ ionqPolls = MaxIonqPolls
    /\ vstatus = "canceled"
    /\ failure = {}
    /\ result = EmptyDict

-----------------------------------------------------------------------------
(* Properties of the simulator adapter *)

RECURSIVE CountsSum(_)
CountsSum(counts) ==
    IF counts = <<>> THEN 0 ELSE Head(counts)[2][2] + CountsSum(Tail(counts))

\* the keys of a counts dict whose count is not zero
MeasuredKeys(counts) ==
    { counts[i][1] : i \in { k \in 1..Len(counts) : counts[k][2][2] # 0 } }

SimulatorReturned == Dispatch(provider, config) = "simulator" /\ Returned

\* C22: on the simulator adapter the Bell circuit with 1024 shots gives
\* success = true and counts whose keys with a count other than zero are
\* among "00" and "11" and whose sum is exactly 1024; and the counts of every
\* successful simulator result sum to the requested shots.
C22_BellCountsOnSimulator ==
    SimulatorReturned =>
        /\ (circuit = BellCircuit /\ failure = {}) =>
               /\ result.success
               /\ MeasuredKeys(result.counts) \subseteq {"00", "11"}
               /\ CountsSum(result.counts) = 1024
        /\ result.success =>
               /\ CountsSum(result.counts) = MainShots
               /\ result.shots = MainShots

\* a Bell run on the simulator in which both outcomes were measured
C22_Witness ==
    /\ SimulatorReturned
    /\ circuit = BellCircuit
    /\ result.success
    /\ MeasuredKeys(result.counts) = {"00", "11"}
    /\ CountsSum(result.counts) = 1024
    /\ submitted[1].ops = << Op("h", <<0>>, <<>>), Op("cx", <<0, 1>>, <<>>) >>

-----------------------------------------------------------------------------
(* Properties of the dispatch *)

RecognizedProviders == DOMAIN QPU_PROVIDERS

\* the adapter whose code the call is in
RunningAdapter ==
    CASE pc = "simulator" -> "qiskit_simulator"
      [] pc \in {"ibm", "ibm_submit", "ibm_loop", "ibm_check", "ibm_msg"} -> "ibm"
      [] pc = "google" -> "google"
      [] pc \in {"ionq", "ionq_poll"} -> "ionq"
      [] OTHER -> "none"

\* the provider whose backend a payload was handed to
BackendOwner(payload) ==
    CASE payload.backend = "qasm_simulator" -> "qiskit_simulator"
      [] payload.backend = QPU_PROVIDERS["ibm"].backend -> "ibm"
      [] payload.backend = QPU_PROVIDERS["google"].processor -> "google"
      [] payload.backend = "qpu" -> "ionq"
      [] OTHER -> "none"

\* C23: for each of the four recognized providers, execute_circuit runs the
\* adapter of the provider chosen at construction, and the "provider" of the
\* result it returns, success or failure, and of the receipt built from it,
\* equals the chosen provider.
C23_ProviderIsTheChosenOne ==
    provider \in RecognizedProviders =>
        /\ RunningAdapter \in {"none", provider}
        /\ \A j \in 1..Len(submitted) : BackendOwner(submitted[j]) = provider
        /\ Returned => result.provider = provider
        /\ receipt # <<>> => Lookup(receipt, "provider") = JStr(provider)

\* a failure of the simulator and its receipt name the chosen provider
C23_Witness ==
    /\ provider = "qiskit_simulator"
    /\ pc = "done"
    /\ ~result.success
    /\ result.provider = "qiskit_simulator"
    /\ Lookup(receipt, "provider") = JStr("qiskit_simulator")

-----------------------------------------------------------------------------
(* Properties of the configuration *)

\* C24: after construction no operation of the bridge (execute_circuit on any
\* provider, generate_receipt) changes the bridge's provider or its
\* configuration, which stays the entry of the provider table chosen at
\* construction.
C24_ConfigurationReadOnly ==
    /\ [](config = ConfigOf(provider))
    /\ [][provider' = provider /\ config' = config]_vars

\* an ibm run that went through execute_circuit and generate_receipt and
\* still has the configuration of the table
C24_Witness ==
    /\ provider = "ibm"
    /\ pc = "done"
    /\ submitted # <<>>
    /\ receipt # <<>>
    /\ config = QPU_PROVIDERS["ibm"]

-----------------------------------------------------------------------------
(* Properties of the statuses of vendor A *)

\* a turn of the ibm loop in which job.status() returned: its test was made
IbmLoopTest == pc = "ibm_loop" /\ polls' = polls + 1 /\ failure' = failure

\* C25: when a poll of the ibm adapter observes ERROR, polling stops at that
\* poll with no further sleep, and the result has success = false with an
\* error made from the vendor's status (or, when a later vendor call raises,
\* from the exception); every status other than DONE and ERROR is treated as
\* non-terminal: it is followed by a sleep and another poll while the wait is
\* below the bound, and leaves the loop only at the bound.
C25_ErrorStopsPolling ==
    /\ [][(IbmLoopTest /\ vstatus = "ERROR")
              => (pc' = "ibm_check" /\ loopExit' = "ERROR" /\ sleeps' = sleeps)]_vars
    /\ [][loopExit # NoHistory => sleeps' = sleeps]_vars
    /\ []((Returned /\ loopExit = "ERROR") =>
              /\ ~result.success
              /\ result.error = "Job status: ERROR" \/ VendorCallRaised)
    /\ [][(IbmLoopTest /\ vstatus \notin {"DONE", "ERROR"} /\ wait_time < max_wait)
              => (pc' = "ibm_loop" /\ sleeps' = sleeps + 1)]_vars
    /\ [](TimedOutExit => wait_time = max_wait)

\* the vendor reported ERROR after some sleeps and the call returned the
\* failure made from that status
C25_Witness ==
    /\ Returned
    /\ loopExit = "ERROR"
    /\ sleeps > 0
    /\ sleeps < MaxSleeps
    /\ ~result.success
    /\ result.error = "Job status: ERROR"

-----------------------------------------------------------------------------
(* Properties of the reads of the status after the vendor-A loop *)

\* C26: in the ibm adapter the status is read again after the polling loop,
\* while the vendor may change it; in every interleaving a result with
\* success = false never has an error that names the status DONE, and a result
\* returned after the loop was left on the wait bound never has success =
\* true.
C26_RereadIsConsistent ==
    (Dispatch(provider, config) = "ibm" /\ Returned) =>
        /\ ~result.success => result.error # "Job status: DONE"
        /\ TimedOutExit => ~result.success

-----------------------------------------------------------------------------
(* Properties of the submitted proof *)

\* C27: in every proof submission of main the job_id at the top level of the
\* body equals the job_id inside the submitted receipt, for every provider and
\* for successful and failed executions alike.
C27_JobIdsAgree ==
    \A i \in 1..Len(posts) :
        Lookup(posts[i].receipt, "job_id") = JStr(posts[i].job_id)

-----------------------------------------------------------------------------
(* Properties of the translation of cx *)

\* the control and the target of a translated controlled-NOT: the first and
\* the second qubit of qc.cx and of cirq.CNOT, the "control" and the "target"
\* of an ionq gate
ControlOf(op) == IF "qubits" \in DOMAIN op THEN op.qubits[1] ELSE op.control
TargetOf(op) == IF "qubits" \in DOMAIN op THEN op.qubits[2] ELSE op.target

OnlyHAndCx(c) == \A i \in GateIndices(c) : c.gates[i].type \in {"h", "cx"}

\* C28: every adapter translates a cx gate with qubits [a, b] to the same
\* operation, with a as the control and b as the target: in the circuit of
\* the simulator and ibm, in the google circuit and in the ionq circuit.
C28_CxControlThenTarget ==
    OnlyHAndCx(circuit) =>
        \A j \in 1..Len(submitted) : \A i \in GateIndices(circuit) :
            circuit.gates[i].type = "cx" =>
                /\ ControlOf(submitted[j].ops[i]) = circuit.gates[i].qubits[1]
                /\ TargetOf(submitted[j].ops[i]) = circuit.gates[i].qubits[2]

-----------------------------------------------------------------------------
(* Properties of an unknown provider *)

\* provider names, in the table and not
ProviderStrings == Providers \cup {"", "IBM", "simulator", "qiskit"}

\* C29: a bridge constructed with a provider name that is not in the provider
\* table gets the simulator's configuration, so execute_circuit runs the
\* simulator adapter and returns a result whose provider is
\* "qiskit_simulator"; the "Unknown provider" ValueError of execute_circuit
\* is reached for no provider name.
C29_UnknownProviderRunsSimulator ==
    /\ provider \notin RecognizedProviders =>
           /\ config = QPU_PROVIDERS["qiskit_simulator"]
           /\ RunningAdapter \in {"none", "qiskit_simulator"}
           /\ \A j \in 1..Len(submitted) : submitted[j].backend = "qasm_simulator"
           /\ pc # "start" => (pc = "simulator" \/ Returned)
           /\ Returned => result.provider = "qiskit_simulator"
    /\ raised # "ValueError"
    /\ \A p \in ProviderStrings : Dispatch(p, ConfigOf(p)) # "ValueError"

\* the provider "rigetti" has run the Bell circuit on the simulator
C29_Witness ==
    /\ provider = "rigetti"
    /\ pc = "done"
    /\ result.success
    /\ result.provider = "qiskit_simulator"
    /\ submitted[1].backend = "qasm_simulator"

-----------------------------------------------------------------------------
(* Properties of the order of main *)

ReceiptMade == receipt # <<>>

\* C30: main executes, then generates the receipt, then submits the proof.
\* A receipt exists only for a result that execute_circuit returned and has
\* its digest from the moment it exists; a POST is issued only when the
\* receipt exists and carries that receipt, which is the one main reports at
\* its end; the receipt is written in one step only, after the execution and
\* before the POST, and neither the result nor the receipt changes afterwards.
C30_ExecuteReceiptSubmit ==
    /\ [](/\ ReceiptMade <=> pc \in {"post", "done"}
          /\ ReceiptMade => result # EmptyDict /\ DigestCovers(receipt)
          /\ posts # <<>> => ReceiptMade /\ posts[Len(posts)].receipt = receipt)
    /\ [][/\ receipt' # receipt =>
               /\ pc = "receipt"
               /\ ~ReceiptMade
               /\ result # EmptyDict
               /\ result' = result
               /\ posts = <<>> /\ posts' = <<>>
          /\ posts' # posts => ReceiptMade /\ receipt' = receipt /\ result' = result
          /\ result' # result => ~ReceiptMade /\ receipt' = receipt /\ posts = <<>>
         ]_vars

\* the google adapter's result went through receipt and POST, and the POST
\* arrived
C30_Witness ==
    /\ provider = "google"
    /\ pc = "done"
    /\ postOutcome = "ok"
    /\ result.success
    /\ ReceiptMade
    /\ DigestCovers(receipt)
    /\ posts[1].receipt = receipt

====
